---- MODULE Spec2Model ----
(***************************************************************************)
(* A model of transcript_downloader.py: the fiscal-period resolver, the    *)
(* descriptor extractors, the two listing loops, the fetch-and-store       *)
(* pipeline against a remote folder store, and main's control flow.        *)
(* Python strings are sequences of one-character strings, so that the      *)
(* regular expressions, strptime and the f-strings are computed and not    *)
(* assumed.                                                                *)
(***************************************************************************)
EXTENDS Integers, Sequences, FiniteSets, TLC

VARIABLES
    date_str,     \* determine_quarter_fy: the date_str argument
    text,         \* determine_quarter_fy: the text argument
    now,          \* the wall clock read by datetime.now(): [year, month]
    resolved,     \* determine_quarter_fy: <<>> before the call, <<quarter, fiscal_year>> after
    extractPc,    \* the extractor call at hand: "row", "page", then "done"
    row,          \* parse_transcript_row: the row argument, [links, text]
    doc_links,    \* get_company_transcripts: the links selected on the company page
    extracted,    \* the descriptors the extractor call returned
    crawlFn,      \* the listing loop that runs
    crawlPc,      \* "loop" while it iterates, "done" once it has left the loop
    page,         \* the loop's page counter
    requests,     \* how many listing pages driver.get has requested
    fetched,      \* the page requested last: its rows, what they yielded, its next link
    found,        \* scrape_transcripts_page: len(transcripts)
    companies,    \* get_all_companies: the company urls, each once, in first-seen order
    mainPc,       \* main: the statement it is at, "exit_ok" or "exit_error" once the process has ended
    env,          \* main: the process environment (credentials present or not)
    driver,       \* the browser driver: "none", "open" after create_webdriver, "quit" after driver.quit
    raised,       \* main: an exception is propagating
    toProcess,    \* main: len(transcripts)
    companyCount, \* main: len(companies)
    companyIdx,   \* main: how many companies the fallback loop has checked
    transcripts,  \* the pipeline: the list of descriptors both runs are given
    folders,      \* remote storage: the folders that are not trashed, [id, name, parent]
    files,        \* remote storage: the files that are not trashed, [id, name, parent]
    nextId,       \* remote storage: the id the next created folder or file gets
    proc          \* the pipeline: per run, its position, loop index, counters and locals

vars == <<date_str, text, now, resolved, extractPc, row, doc_links, extracted,
          crawlFn, crawlPc, page, requests, fetched, found, companies,
          mainPc, env, driver, raised, toProcess, companyCount, companyIdx,
          transcripts, folders, files, nextId, proc>>

(***************************************************************************)
(* The program has five parts that are checked apart: the resolver, the    *)
(* extractors, the listing loops, main, and the pipeline.  Here are the    *)
(* variables of each part and the value they keep while another part runs. *)
(***************************************************************************)
resolveVars == <<date_str, text, resolved>>
extractVars == <<extractPc, row, doc_links, extracted>>
crawlVars == <<crawlFn, crawlPc, page, requests, fetched, found, companies>>
mainVars == <<mainPc, env, driver, raised, toProcess, companyCount, companyIdx>>
pipelineVars == <<transcripts, folders, files, nextId, proc>>

ResolveIdle == date_str = <<>> /\ text = <<>> /\ resolved = <<>>
ExtractIdle ==
    /\ extractPc = "done"
    /\ row = [links |-> <<>>, text |-> <<>>]
    /\ doc_links = <<>>
    /\ extracted = <<>>
CrawlIdle ==
    /\ crawlFn = "none"
    /\ crawlPc = "done"
    /\ page = 1
    /\ requests = 0
    /\ fetched = [rows |-> 0, next |-> FALSE, yield |-> <<>>]
    /\ found = 0
    /\ companies = <<>>
MainIdle ==
    /\ mainPc = "exit_ok"
    /\ env = [username |-> TRUE, password |-> TRUE, creds_base64 |-> "valid", creds_file |-> TRUE]
    /\ driver = "none"
    /\ raised = FALSE
    /\ toProcess = 0
    /\ companyCount = 0
    /\ companyIdx = 0
PipelineIdle ==
    /\ transcripts = <<>>
    /\ folders = {}
    /\ files = {}
    /\ nextId = 1
    /\ proc = <<>>

(***************************************************************************)
(* Characters and strings                                                  *)
(***************************************************************************)
UpperLetters == <<"A", "B", "C", "D", "E", "F", "G", "H", "I", "J", "K", "L", "M",
                  "N", "O", "P", "Q", "R", "S", "T", "U", "V", "W", "X", "Y", "Z">>
LowerLetters == <<"a", "b", "c", "d", "e", "f", "g", "h", "i", "j", "k", "l", "m",
                  "n", "o", "p", "q", "r", "s", "t", "u", "v", "w", "x", "y", "z">>
DigitChars == <<"0", "1", "2", "3", "4", "5", "6", "7", "8", "9">>

\* \d of the re module, on the ASCII digits
IsDigit(c) == \E i \in DOMAIN DigitChars : DigitChars[i] = c
DigitVal(c) == (CHOOSE i \in DOMAIN DigitChars : DigitChars[i] = c) - 1
\* the control characters that Python counts as white space besides \t \n \r \f:
\* vertical tab (0x0b) and the separators 0x1c..0x1f
VerticalTab == ""
Separators == {"", "", "", ""}
\* \s of the re module on a str pattern, and the characters str.strip() and
\* str.lstrip() remove: the ASCII white space (the white space beyond ASCII,
\* such as the no-break space, is not among the characters of the model)
IsSpace(c) == c \in {" ", "\t", "\n", "\r", "\f", VerticalTab} \cup Separators
AllDigits(s) == \A i \in DOMAIN s : IsDigit(s[i])

\* str.lower() and re.IGNORECASE, on the ASCII letters
ToLowerChar(c) ==
    IF \E i \in DOMAIN UpperLetters : UpperLetters[i] = c
    THEN LowerLetters[CHOOSE i \in DOMAIN UpperLetters : UpperLetters[i] = c]
    ELSE c
StrLower(s) == [i \in DOMAIN s |-> ToLowerChar(s[i])]

\* str.startswith(p)
StartsWith(s, p) == Len(s) >= Len(p) /\ SubSeq(s, 1, Len(p)) = p
\* the positions at which sub occurs in s
Occurrences(s, sub) ==
    {i \in 1..(Len(s) - Len(sub) + 1) : SubSeq(s, i, i + Len(sub) - 1) = sub}
\* sub in s
Contains(s, sub) == Occurrences(s, sub) # {}
SetMin(S) == CHOOSE x \in S : \A y \in S : x <= y

\* int(s) of a digit string
RECURSIVE StrToInt(_)
StrToInt(s) ==
    IF s = <<>> THEN 0
    ELSE 10 * StrToInt(SubSeq(s, 1, Len(s) - 1)) + DigitVal(s[Len(s)])
\* str(n) of a natural number, as an f-string formats it
RECURSIVE IntToStr(_)
IntToStr(n) ==
    IF n < 10 THEN <<DigitChars[n + 1]>>
    ELSE IntToStr(n \div 10) \o <<DigitChars[(n % 10) + 1]>>

\* s.split(sep) for a one-character separator
RECURSIVE Split(_, _)
Split(s, sep) ==
    LET at == {i \in DOMAIN s : s[i] = sep} IN
    IF at = {} THEN <<s>>
    ELSE <<SubSeq(s, 1, SetMin(at) - 1)>>
             \o Split(SubSeq(s, SetMin(at) + 1, Len(s)), sep)

(***************************************************************************)
(* The two regular expressions of the resolver and the extractors          *)
(***************************************************************************)
\* re.search(r'Q(\d)', text, re.IGNORECASE): the position of the match, 0 for None
QuarterMatchPos(t) ==
    LET at == {i \in 1..(Len(t) - 1) : ToLowerChar(t[i]) = "q" /\ IsDigit(t[i + 1])}
    IN IF at = {} THEN 0 ELSE SetMin(at)
\* group(1) of that match
QuarterGroup(t) == <<t[QuarterMatchPos(t) + 1]>>

\* the first position at or after j that is not white space (\s* is greedy)
RECURSIVE SkipSpaces(_, _)
SkipSpaces(t, j) ==
    IF j <= Len(t) /\ IsSpace(t[j]) THEN SkipSpaces(t, j + 1) ELSE j
\* how many digits \d{2,4} takes at j: the run of digits there, four at most
RECURSIVE DigitRun(_, _, _)
DigitRun(t, j, most) ==
    IF most > 0 /\ j <= Len(t) /\ IsDigit(t[j])
    THEN 1 + DigitRun(t, j + 1, most - 1)
    ELSE 0
FyMatchesAt(t, i) ==
    /\ i + 1 <= Len(t)
    /\ ToLowerChar(t[i]) = "f"
    /\ ToLowerChar(t[i + 1]) = "y"
    /\ DigitRun(t, SkipSpaces(t, i + 2), 4) >= 2
\* re.search(r'FY\s*(\d{2,4})', text, re.IGNORECASE): the position of the match, 0 for None
FyMatchPos(t) ==
    LET at == {i \in DOMAIN t : FyMatchesAt(t, i)}
    IN IF at = {} THEN 0 ELSE SetMin(at)
\* group(1) of that match
FyGroup(t) ==
    LET j == SkipSpaces(t, FyMatchPos(t) + 2)
    IN SubSeq(t, j, j + DigitRun(t, j, 4) - 1)

(***************************************************************************)
(* datetime.strptime on the five formats of determine_quarter_fy           *)
(***************************************************************************)
\* the formats in the order the loop tries them
DateFormats == <<
    [sep |-> "-", fields |-> <<"d", "m", "Y">>],
    [sep |-> "/", fields |-> <<"d", "m", "Y">>],
    [sep |-> "-", fields |-> <<"Y", "m", "d">>],
    [sep |-> "-", fields |-> <<"d", "m", "y">>],
    [sep |-> "/", fields |-> <<"d", "m", "y">>] >>

\* the regular expression of one directive matches the whole field f
DirectiveMatches(d, f) ==
    CASE d = "d" ->
            \/ Len(f) \in {1, 2} /\ AllDigits(f) /\ f[1] # "0"
                                 /\ StrToInt(f) \in 1..31
            \/ Len(f) = 2 /\ f[1] = "0" /\ IsDigit(f[2]) /\ f[2] # "0"
            \/ Len(f) = 2 /\ f[1] = " " /\ IsDigit(f[2]) /\ f[2] # "0"
      [] d = "m" ->
            \/ Len(f) \in {1, 2} /\ AllDigits(f) /\ f[1] # "0"
                                 /\ StrToInt(f) \in 1..12
            \/ Len(f) = 2 /\ f[1] = "0" /\ IsDigit(f[2]) /\ f[2] # "0"
      [] d = "Y" -> Len(f) = 4 /\ AllDigits(f)
      [] d = "y" -> Len(f) = 2 /\ AllDigits(f)

\* the value of a matched field: %y pivots at 68, %d may carry a leading blank
DirectiveValue(d, f) ==
    CASE d = "y" -> IF StrToInt(f) <= 68 THEN 2000 + StrToInt(f) ELSE 1900 + StrToInt(f)
      [] d = "d" -> IF f[1] = " " THEN DigitVal(f[2]) ELSE StrToInt(f)
      [] OTHER -> StrToInt(f)

IsLeap(y) == (y % 4 = 0 /\ y % 100 # 0) \/ y % 400 = 0
DaysInMonth(y, m) ==
    IF m = 2 THEN (IF IsLeap(y) THEN 29 ELSE 28)
    ELSE IF m \in {4, 6, 9, 11} THEN 30 ELSE 31

\* datetime.strptime(s, fmt): [ok |-> FALSE] stands for ValueError
Strptime(s, fmt) ==
    LET fs == Split(s, fmt.sep) IN
    IF Len(fs) # 3 \/ \E k \in 1..3 : ~DirectiveMatches(fmt.fields[k], fs[k])
    THEN [ok |-> FALSE, year |-> 0, month |-> 0]
    ELSE LET val(d) == DirectiveValue(d, fs[CHOOSE k \in 1..3 : fmt.fields[k] = d])
             year == IF fmt.fields[1] = "Y" \/ fmt.fields[3] = "Y" THEN val("Y") ELSE val("y")
             month == val("m")
             day == val("d")
         IN IF year >= 1 /\ day <= DaysInMonth(year, month)
            THEN [ok |-> TRUE, year |-> year, month |-> month]
            ELSE [ok |-> FALSE, year |-> 0, month |-> 0]

(***************************************************************************)
(* determine_quarter_fy                                                    *)
(***************************************************************************)
FYPrefix == <<"F", "Y">>
QPrefix == <<"Q">>

\* FiscalPeriod with the January-March branch labelled like the other three
FiscalPeriodNextYearAlways(month, year) ==
    IF month >= 4 /\ month <= 6 THEN <<QPrefix \o <<"1">>, FYPrefix \o IntToStr(year + 1)>>
    ELSE IF month >= 7 /\ month <= 9 THEN <<QPrefix \o <<"2">>, FYPrefix \o IntToStr(year + 1)>>
    ELSE IF month >= 10 /\ month <= 12 THEN <<QPrefix \o <<"3">>, FYPrefix \o IntToStr(year + 1)>>
    ELSE <<QPrefix \o <<"4">>, FYPrefix \o IntToStr(year + 1)>>

\* the April-start mapping of a calendar month and year
FiscalPeriod(month, year) ==
    IF month >= 4 /\ month <= 6 THEN <<QPrefix \o <<"1">>, FYPrefix \o IntToStr(year + 1)>>
    ELSE IF month >= 7 /\ month <= 9 THEN <<QPrefix \o <<"2">>, FYPrefix \o IntToStr(year + 1)>>
    ELSE IF month >= 10 /\ month <= 12 THEN <<QPrefix \o <<"3">>, FYPrefix \o IntToStr(year + 1)>>
    ELSE <<QPrefix \o <<"4">>, FYPrefix \o IntToStr(year)>>

\* the first format that parses date_str, 0 when none does
FirstFormat(ds) ==
    LET ok == {k \in DOMAIN DateFormats : Strptime(ds, DateFormats[k]).ok}
    IN IF ok = {} THEN 0 ELSE SetMin(ok)

\* TextPeriod without the expansion of a two-digit year
TextPeriodNoExpansion(t) == <<QPrefix \o QuarterGroup(t), FYPrefix \o FyGroup(t)>>

\* the text branch: both markers found
TextPeriod(t) ==
    LET fy == FyGroup(t)
    IN <<QPrefix \o QuarterGroup(t),
         FYPrefix \o (IF Len(fy) = 2 THEN <<"2", "0">> \o fy ELSE fy)>>

\* determine_quarter_fy(date_str, text) with the clock it may read
determine_quarter_fy(ds, t, clock) ==
    IF QuarterMatchPos(t) # 0 /\ FyMatchPos(t) # 0
    THEN TextPeriod(t)
    ELSE IF ds # <<>> /\ FirstFormat(ds) # 0
    THEN LET d == Strptime(ds, DateFormats[FirstFormat(ds)])
         IN FiscalPeriod(d.month, d.year)
    ELSE FiscalPeriod(clock.month, clock.year)

(***************************************************************************)
(* The resolver as a state machine: one call on inputs drawn from bounded  *)
(* sets                                                                    *)
(***************************************************************************)
FirstYear == 2024

ResolveDays == {<<"1">>, <<"0", "1">>, <<"1", "5">>, <<"2", "9">>, <<"3", "1">>, <<"3", "2">>}
ResolveMonths == {<<"1">>, <<"0", "2">>, <<"3">>, <<"4">>, <<"0", "5">>,
    <<"6">>, <<"7">>, <<"0", "8">>, <<"9">>, <<"1", "0">>,
    <<"1", "1">>, <<"1", "2">>, <<"1", "3">>}
ResolveYears == {<<"2", "3">>, <<"6", "9">>, <<"2", "0", "2", "3">>,
                 <<"2", "0", "2", "4">>, <<"9", "9", "9", "9">>}
ResolveDates ==
    {<<>>, <<"n", "/", "a">>}
    \cup {d \o <<s>> \o m \o <<s>> \o y :
            d \in ResolveDays, m \in ResolveMonths, y \in ResolveYears, s \in {"-", "/"}}
    \cup {y \o <<"-">> \o m \o <<"-">> \o d :
            d \in ResolveDays, m \in ResolveMonths, y \in {z \in ResolveYears : Len(z) = 4}}
ResolveTexts == {
    <<>>,
    <<"Q", "2", " ", "F", "Y", "2", "4">>,
    <<"F", "Y", "2", "4">>,
    <<"q", "3", " ", "f", "y", " ", "2", "0", "2", "5">>,
    <<"Q", "1">>,
    <<"Q", "5", " ", "F", "Y", "2", "4", "5">>,
    <<"Q", "1", " ", "F", "Y", VerticalTab, "2", "4">>,
    <<"F", "Y", "2", "0", "2", "3", " ", "Q", "1", " ", "F", "Y", "2", "4">> }
ResolveClocks == {[year |-> FirstYear, month |-> m] : m \in {3, 11}}

ResolveInit ==
    /\ date_str \in ResolveDates
    /\ text \in ResolveTexts
    /\ now \in ResolveClocks
    /\ resolved = <<>>
    /\ ExtractIdle /\ CrawlIdle /\ MainIdle /\ PipelineIdle

\* one call of determine_quarter_fy(date_str, text)
Resolve ==
    /\ resolved = <<>>
    /\ resolved' = determine_quarter_fy(date_str, text, now)
    /\ UNCHANGED <<date_str, text, now>>
    /\ UNCHANGED <<extractVars, crawlVars, mainVars, pipelineVars>>

ResolveNext == Resolve
SpecResolve == ResolveInit /\ [][ResolveNext]_vars

\* the two-digit groups of all the fiscal-year markers of a text
TwoDigitMarkers(t) ==
    {SubSeq(t, SkipSpaces(t, i + 2), SkipSpaces(t, i + 2) + 1) :
        i \in {k \in DOMAIN t : FyMatchesAt(t, k) /\ DigitRun(t, SkipSpaces(t, k + 2), 4) = 2}}
BothMarkers(t) == QuarterMatchPos(t) # 0 /\ FyMatchPos(t) # 0

\* C8 as stated: whenever the text holds a fiscal-year marker with a two-digit
\* year yy, whatever the date, the resolved fiscal year is FY20yy.
C8_TwoDigitYearAlwaysExpanded ==
    resolved # <<>> =>
        \A yy \in TwoDigitMarkers(text) : resolved[2] = <<"F", "Y", "2", "0">> \o yy

\* C8 amended: when the text holds a quarter marker too and its first
\* fiscal-year marker has exactly two digits yy, the resolved fiscal year is
\* FY20yy, whatever the date and the clock.
C8_TwoDigitYearExpandedWithQuarter ==
    (resolved # <<>> /\ BothMarkers(text) /\ Len(FyGroup(text)) = 2) =>
        resolved[2] = <<"F", "Y", "2", "0">> \o FyGroup(text)

C8_Witness ==
    /\ text = <<"Q", "2", " ", "F", "Y", "2", "4">>
    /\ date_str = <<"1", "5", "-", "7", "-", "2", "0", "2", "3">>
    /\ resolved = <<<<"Q", "2">>, <<"F", "Y", "2", "0", "2", "4">>>>

\* C9: a date that parses in an accepted format, with a text that does not
\* carry both markers, resolves by the April-start convention: months 4-6 are
\* Q1, 7-9 Q2 and 10-12 Q3 of FY(year+1), months 1-3 are Q4 of FY(year); and
\* "01-02-2023" resolves to Q4, FY2023.
C9_AprilStartMapping ==
    (resolved # <<>> /\ FirstFormat(date_str) # 0 /\ ~BothMarkers(text)) =>
        LET d == Strptime(date_str, DateFormats[FirstFormat(date_str)])
            next == <<"F", "Y">> \o IntToStr(d.year + 1)
            same == <<"F", "Y">> \o IntToStr(d.year)
        IN /\ d.month \in 4..6 => resolved = <<<<"Q", "1">>, next>>
           /\ d.month \in 7..9 => resolved = <<<<"Q", "2">>, next>>
           /\ d.month \in 10..12 => resolved = <<<<"Q", "3">>, next>>
           /\ d.month \in 1..3 => resolved = <<<<"Q", "4">>, same>>
           /\ date_str = <<"0", "1", "-", "0", "2", "-", "2", "0", "2", "3">>
                => resolved = <<<<"Q", "4">>, <<"F", "Y", "2", "0", "2", "3">>>>

C9_Witness ==
    /\ date_str = <<"0", "1", "-", "0", "2", "-", "2", "0", "2", "3">>
    /\ text = <<>>
    /\ resolved = <<<<"Q", "4">>, <<"F", "Y", "2", "0", "2", "3">>>>

(***************************************************************************)
(* The descriptor extractors: parse_transcript_row (primary listing) and   *)
(* get_company_transcripts (company pages).  A row is the list of the      *)
(* hrefs of its links, in document order, and its flattened text; a        *)
(* company page is the list of its selected links, each an href and a      *)
(* text.  A key a descriptor does not carry reads as the empty string,     *)
(* which is what every dict.get of the pipeline defaults to.               *)
(***************************************************************************)
SiteRoot == <<"h", "t", "t", "p", "s", ":", "/", "/", "w", "w", "w", ".",
              "s", "c", "r", "e", "e", "n", "e", "r", ".", "i", "n">>
Unknown == <<"U", "n", "k", "n", "o", "w", "n">>
CompanyLimit == 50
RawTextLimit == 100

\* s[:n]
Take(s, n) == SubSeq(s, 1, IF Len(s) < n THEN Len(s) ELSE n)
\* s.strip()
RECURSIVE Strip(_)
Strip(s) ==
    IF s # <<>> /\ IsSpace(s[1]) THEN Strip(Tail(s))
    ELSE IF s # <<>> /\ IsSpace(s[Len(s)]) THEN Strip(SubSeq(s, 1, Len(s) - 1))
    ELSE s
\* s.replace(sub, "")
RECURSIVE Remove(_, _)
Remove(s, sub) ==
    IF ~Contains(s, sub) THEN s
    ELSE LET i == SetMin(Occurrences(s, sub))
         IN SubSeq(s, 1, i - 1) \o Remove(SubSeq(s, i + Len(sub), Len(s)), sub)

\* ".pdf" in href.lower() or "transcript" in href.lower()
IsDocumentHref(h) ==
    \/ Contains(StrLower(h), <<".", "p", "d", "f">>)
    \/ Contains(StrLower(h), <<"t", "r", "a", "n", "s", "c", "r", "i", "p", "t">>)

\* the index of the first link of the row that is a document link, 0 when none is
PdfLinkPos(links) ==
    LET at == {k \in DOMAIN links : IsDocumentHref(links[k])}
    IN IF at = {} THEN 0 ELSE SetMin(at)

\* "Make absolute URL" of parse_transcript_row
MakeAbsolute(h) ==
    IF StartsWith(h, <<"/">>) THEN SiteRoot \o h
    ELSE IF ~StartsWith(h, <<"h", "t", "t", "p">>) THEN SiteRoot \o <<"/">> \o h
    ELSE h

\* the length of the match of \d{1,2}[-/]\d{1,2}[-/]\d{2,4} at i, 0 when there is none
DateMatchLenAt(t, i) ==
    LET a == DigitRun(t, i, 2)
        b == DigitRun(t, i + a + 1, 2)
        c == DigitRun(t, i + a + b + 2, 4)
        sepAt(j) == j <= Len(t) /\ t[j] \in {"-", "/"}
    IN IF a >= 1 /\ sepAt(i + a) /\ b >= 1 /\ sepAt(i + a + 1 + b) /\ c >= 2
       THEN a + b + c + 2 ELSE 0
\* group(1) of re.search of that pattern, "" when there is no match
DateGroup(t) ==
    LET at == {i \in DOMAIN t : DateMatchLenAt(t, i) > 0}
    IN IF at = {} THEN <<>>
       ELSE SubSeq(t, SetMin(at), SetMin(at) + DateMatchLenAt(t, SetMin(at)) - 1)

\* re.split(r'\d|Q\d|FY', text)[0]
BeforeFirstMarker(t) ==
    LET at == {i \in DOMAIN t :
                 \/ IsDigit(t[i])
                 \/ t[i] = "Q" /\ i < Len(t) /\ IsDigit(t[i + 1])
                 \/ t[i] = "F" /\ i < Len(t) /\ t[i + 1] = "Y"}
    IN IF at = {} THEN t ELSE SubSeq(t, 1, SetMin(at) - 1)

CompanyName(t) ==
    Strip(Remove(Strip(BeforeFirstMarker(t)),
                 <<"T", "r", "a", "n", "s", "c", "r", "i", "p", "t">>))

\* what a function returns for None: no descriptor
NoDescriptor == <<>>

\* parse_transcript_row(row): <<>> for None, else the descriptor in a 1-tuple
parse_transcript_row(r) ==
    IF PdfLinkPos(r.links) = 0 THEN NoDescriptor
    ELSE << [company |-> Take(CompanyName(r.text), CompanyLimit),
             pdf_url |-> MakeAbsolute(r.links[PdfLinkPos(r.links)]),
             date |-> DateGroup(r.text),
             quarter |-> IF QuarterMatchPos(r.text) # 0
                         THEN QPrefix \o QuarterGroup(r.text) ELSE <<>>,
             fiscal_year |-> IF FyMatchPos(r.text) # 0
                             THEN FYPrefix \o FyGroup(r.text) ELSE <<>>,
             raw_text |-> Take(r.text, RawTextLimit),
             text |-> <<>>] >>

\* the href of a company-page link as get_company_transcripts stores it
CompanyHref(h) ==
    IF ~StartsWith(h, <<"h", "t", "t", "p">>)
    THEN (IF StartsWith(h, <<"/">>) THEN SiteRoot \o h ELSE h)
    ELSE h

\* "transcript" in href.lower() or "transcript" in text.lower()
IsTranscriptLink(l) ==
    \/ Contains(StrLower(l.href), <<"t", "r", "a", "n", "s", "c", "r", "i", "p", "t">>)
    \/ Contains(StrLower(l.text), <<"t", "r", "a", "n", "s", "c", "r", "i", "p", "t">>)

\* get_company_transcripts on the selected links of the page, and main's
\* t["company"] = company["name"] on each of its results
RECURSIVE get_company_transcripts(_, _)
get_company_transcripts(name, ls) ==
    IF ls = <<>> THEN <<>>
    ELSE (IF IsTranscriptLink(ls[1])
          THEN << [company |-> name,
                   pdf_url |-> CompanyHref(ls[1].href),
                   date |-> <<>>,
                   quarter |-> IF QuarterMatchPos(ls[1].text) # 0
                               THEN QPrefix \o QuarterGroup(ls[1].text) ELSE Unknown,
                   fiscal_year |-> IF FyMatchPos(ls[1].text) # 0
                                   THEN FYPrefix \o FyGroup(ls[1].text) ELSE Unknown,
                   raw_text |-> <<>>,
                   text |-> ls[1].text] >>
          ELSE <<>>)
         \o get_company_transcripts(name, Tail(ls))

(***************************************************************************)
(* The extractors as a state machine: one call of either on inputs drawn   *)
(* from bounded sets                                                       *)
(***************************************************************************)
MaxLinks == 2

HrefRootRelative == <<"/", "d", "o", "c", "s", "/", "a", ".", "p", "d", "f">>
HrefRelative == <<"d", "o", "c", "s", "/", "t", "r", "a", "n", "s", "c", "r", "i", "p", "t",
                  ".", "p", "d", "f">>
HrefAbsolute == <<"h", "t", "t", "p", "s", ":", "/", "/", "c", "d", "n", ".", "x", "/",
                  "t", "r", "a", "n", "s", "c", "r", "i", "p", "t", ".", "p", "d", "f">>
HrefPlainHttp == <<"h", "t", "t", "p", ":", "/", "/", "x", "/", "t", ".", "p", "d", "f">>
HrefHttpDir == <<"h", "t", "t", "p", "d", "o", "c", "s", "/", "a", ".", "p", "d", "f">>
HrefCompany == <<"/", "c", "o", "m", "p", "a", "n", "y", "/", "x", "/">>
HrefUpper == <<"x", ".", "P", "D", "F">>
ExtractHrefs == {<<>>, HrefRootRelative, HrefRelative, HrefAbsolute, HrefPlainHttp,
                 HrefHttpDir, HrefCompany, HrefUpper}

TextAcme == <<"A", "c", "m", "e", " ", "C", "o", "r", "p", " ", "Q", "2", " ", "F", "Y",
              "2", "4", " ", "T", "r", "a", "n", "s", "c", "r", "i", "p", "t", " ",
              "1", "5", "-", "0", "7", "-", "2", "0", "2", "4">>
TextBeta == <<"B", "e", "t", "a", " ", "L", "t", "d", " ", "C", "o", "n", "c", "a", "l", "l",
              " ", "T", "r", "a", "n", "s", "c", "r", "i", "p", "t">>
TextQ3 == <<"Q", "3", " ", "F", "Y", "2", "0", "2", "5", " ", "T", "r", "a", "n", "s", "c",
            "r", "i", "p", "t">>
ExtractTexts == {<<>>, TextAcme, TextBeta, TextQ3}
NameAcme == <<"A", "c", "m", "e">>

SeqsUpTo(S, n) == UNION {[1..k -> S] : k \in 0..n}

\* the rows a listing page can hold
ExtractRows == [links : SeqsUpTo(ExtractHrefs, MaxLinks), text : ExtractTexts]
\* the links the selector a[href*='transcript'], a[href*='.pdf'] can return
SelectedLinks ==
    {l \in [href : ExtractHrefs, text : ExtractTexts] :
        \/ Contains(l.href, <<"t", "r", "a", "n", "s", "c", "r", "i", "p", "t">>)
        \/ Contains(l.href, <<".", "p", "d", "f">>)}
ExtractPages == SeqsUpTo(SelectedLinks, MaxLinks)

ExtractInit ==
    /\ \/ extractPc = "row" /\ row \in ExtractRows /\ doc_links = <<>>
       \/ extractPc = "page" /\ row = [links |-> <<>>, text |-> <<>>]
                             /\ doc_links \in ExtractPages
    /\ extracted = <<>>
    /\ ResolveIdle /\ CrawlIdle /\ MainIdle /\ PipelineIdle
    /\ now = [year |-> FirstYear, month |-> 1]

\* scrape_transcripts_page on one row: the descriptor is kept unless it is None
ParseRow ==
    /\ extractPc = "row"
    /\ extracted' = parse_transcript_row(row)
    /\ extractPc' = "done"
    /\ UNCHANGED <<row, doc_links, now>>
    /\ UNCHANGED <<resolveVars, crawlVars, mainVars, pipelineVars>>

\* main's fallback on one company page
CompanyPage ==
    /\ extractPc = "page"
    /\ extracted' = get_company_transcripts(NameAcme, doc_links)
    /\ extractPc' = "done"
    /\ UNCHANGED <<row, doc_links, now>>
    /\ UNCHANGED <<resolveVars, crawlVars, mainVars, pipelineVars>>

ExtractNext == ParseRow \/ CompanyPage
SpecExtract == ExtractInit /\ [][ExtractNext]_vars

IsAbsoluteUrl(u) ==
    \/ StartsWith(StrLower(u), <<"h", "t", "t", "p", ":", "/", "/">>)
    \/ StartsWith(StrLower(u), <<"h", "t", "t", "p", "s", ":", "/", "/">>)

\* C10: every descriptor either strategy produces has a source URL that is
\* present and absolute, whatever the href was.
C10_SourceUrlAbsolute ==
    extractPc = "done" =>
        \A k \in DOMAIN extracted :
            extracted[k].pdf_url # <<>> /\ IsAbsoluteUrl(extracted[k].pdf_url)

\* the same of the primary strategy alone, on hrefs that do not begin with "http"
\* without being URLs
C10_PrimaryAbsolute ==
    (extractPc = "done" /\ doc_links = <<>>
        /\ \A k \in DOMAIN row.links : row.links[k] # HrefHttpDir) =>
        \A k \in DOMAIN extracted :
            extracted[k].pdf_url # <<>> /\ IsAbsoluteUrl(extracted[k].pdf_url)

(***************************************************************************)
(* The listing loops: scrape_transcripts_page and get_all_companies.  One  *)
(* action is one iteration: the request of page N, the rows of the answer, *)
(* and the decision to stop or to go on.  What a page holds is the         *)
(* environment's choice at every request.                                  *)
(***************************************************************************)
TranscriptPageCap == 200
CompanyPageCap == 100
CompanySoftCap == 50
MaxRows == 1
CompanyUrls == {"u1", "u2"}

\* ScrapeAfterPage without the break on a missing next link
ScrapeAfterPageIgnoringNext(p, content) ==
    IF content.rows = 0 THEN [page |-> p, stop |-> TRUE]
    ELSE [page |-> p + 1, stop |-> p + 1 > TranscriptPageCap]

\* ScrapeAfterPage with the cap tested on the page just requested
ScrapeAfterPageCapBeforeAdvance(p, content) ==
    IF content.rows = 0 THEN [page |-> p, stop |-> TRUE]
    ELSE IF ~content.next THEN [page |-> p, stop |-> TRUE]
    ELSE [page |-> p + 1, stop |-> p > TranscriptPageCap]

\* after a page of scrape_transcripts_page: the next value of the page counter
\* and whether the loop is left
ScrapeAfterPage(p, content) ==
    IF content.rows = 0 THEN [page |-> p, stop |-> TRUE]
    ELSE IF ~content.next THEN [page |-> p, stop |-> TRUE]
    ELSE [page |-> p + 1, stop |-> p + 1 > TranscriptPageCap]

\* the same of get_all_companies
CompaniesAfterPage(p, content) ==
    IF content.rows = 0 THEN [page |-> p, stop |-> TRUE]
    ELSE IF ~content.next /\ p > CompanySoftCap THEN [page |-> p, stop |-> TRUE]
    ELSE [page |-> p + 1, stop |-> p + 1 > CompanyPageCap]

\* the listing pages the site can answer with: rows, of which `yield` gave a
\* descriptor (a count) or a company (their urls, in page order), and a next link
TranscriptPages ==
    {[rows |-> r, next |-> n, yield |-> y] : r \in 0..MaxRows, n \in BOOLEAN, y \in 0..MaxRows}
CompanyPages ==
    {c \in [rows : 0..MaxRows, next : BOOLEAN, yield : SeqsUpTo(CompanyUrls, MaxRows)] :
        Len(c.yield) <= c.rows}

\* "Remove duplicates": xs followed by the members of ys not seen before
RECURSIVE AppendUnique(_, _)
AppendUnique(xs, ys) ==
    IF ys = <<>> THEN xs
    ELSE AppendUnique(IF \E k \in DOMAIN xs : xs[k] = ys[1] THEN xs ELSE Append(xs, ys[1]),
                      Tail(ys))

CrawlInit ==
    /\ crawlFn \in {"scrape_transcripts_page", "get_all_companies"}
    /\ crawlPc = "loop"
    /\ page = 1
    /\ requests = 0
    /\ fetched = [rows |-> 0, next |-> FALSE, yield |-> <<>>]
    /\ found = 0
    /\ companies = <<>>
    /\ ResolveIdle /\ ExtractIdle /\ MainIdle /\ PipelineIdle
    /\ now = [year |-> FirstYear, month |-> 1]

\* one iteration of the while loop of scrape_transcripts_page
ScrapeIteration ==
    /\ crawlFn = "scrape_transcripts_page"
    /\ crawlPc = "loop"
    /\ \E content \in {c \in TranscriptPages : c.yield <= c.rows} :
          /\ fetched' = content
          /\ requests' = requests + 1
          /\ found' = found + content.yield
          /\ page' = ScrapeAfterPage(page, content).page
          /\ crawlPc' = IF ScrapeAfterPage(page, content).stop THEN "done" ELSE "loop"
    /\ UNCHANGED <<crawlFn, companies, now>>
    /\ UNCHANGED <<resolveVars, extractVars, mainVars, pipelineVars>>

\* one iteration of the while loop of get_all_companies, with the removal of
\* duplicates that follows the loop
CompaniesIteration ==
    /\ crawlFn = "get_all_companies"
    /\ crawlPc = "loop"
    /\ \E content \in CompanyPages :
          /\ fetched' = content
          /\ requests' = requests + 1
          /\ companies' = AppendUnique(companies, content.yield)
          /\ page' = CompaniesAfterPage(page, content).page
          /\ crawlPc' = IF CompaniesAfterPage(page, content).stop THEN "done" ELSE "loop"
    /\ UNCHANGED <<crawlFn, found, now>>
    /\ UNCHANGED <<resolveVars, extractVars, mainVars, pipelineVars>>

CrawlNext == ScrapeIteration \/ CompaniesIteration
SpecCrawl == CrawlInit /\ [][CrawlNext]_vars
\* the loop is sequential code: an iteration that can run does run
SpecCrawlFair == SpecCrawl /\ WF_vars(CrawlNext)

PageCap(fn) == IF fn = "scrape_transcripts_page" THEN TranscriptPageCap ELSE CompanyPageCap

\* C3 as stated: a listing loop is left only after a page with zero rows or
\* when the page counter has passed the cap; a page with rows and no next
\* link does not stop it, the following page is requested.
C3_StopsOnlyOnEmptyOrCap ==
    [][(crawlPc = "loop" /\ requests' = requests + 1) =>
         /\ crawlPc' = "done" => (fetched'.rows = 0 \/ page' > PageCap(crawlFn))
         /\ (fetched'.rows > 0 /\ ~fetched'.next /\ page + 1 <= PageCap(crawlFn))
                => (crawlPc' = "loop" /\ page' = page + 1)]_vars

\* C3 amended: scrape_transcripts_page is left exactly after a page with zero
\* rows, after a page with no next link, or when the counter has passed 200;
\* get_all_companies is left exactly after a page with zero rows, after a
\* page beyond the 50th with no next link, or when the counter has passed
\* 100.  A loop that is not left requests the following page.
C3_StopConditions ==
    [][(crawlPc = "loop" /\ requests' = requests + 1) =>
         /\ crawlFn = "scrape_transcripts_page" =>
               (crawlPc' = "done" <=>
                   (fetched'.rows = 0 \/ ~fetched'.next \/ page' > TranscriptPageCap))
         /\ crawlFn = "get_all_companies" =>
               (crawlPc' = "done" <=>
                   (\/ fetched'.rows = 0
                    \/ ~fetched'.next /\ page > CompanySoftCap
                    \/ page' > CompanyPageCap))
         /\ crawlPc' = "loop" => page' = page + 1]_vars

\* get_all_companies went on after a page with rows and no next link
C3_Witness ==
    /\ crawlFn = "get_all_companies"
    /\ crawlPc = "loop"
    /\ fetched.rows > 0 /\ ~fetched.next
    /\ page = 2 /\ requests = 1

\* C4: whatever the listing answers, scrape_transcripts_page requests at most
\* 200 pages and get_all_companies at most 100, and each loop is left.
C4_TerminatesWithinCap ==
    /\ [](requests <= PageCap(crawlFn))
    /\ <>(crawlPc = "done")

\* a listing with rows and a next link on every page, cut by the cap
C4_Witness ==
    /\ crawlFn = "scrape_transcripts_page"
    /\ crawlPc = "done"
    /\ requests = TranscriptPageCap
    /\ fetched.rows > 0 /\ fetched.next

(***************************************************************************)
(* main: the start-up, the try block and its finally.  The listing loops   *)
(* and the pipeline are the calls main makes; here each is one step that   *)
(* returns or raises.                                                      *)
(***************************************************************************)
MaxScraped == 1
MaxCompanies == 2
CompanyCheckLimit == 100

Environments ==
    [username : BOOLEAN, password : BOOLEAN,
     creds_base64 : {"unset", "valid", "malformed"}, creds_file : BOOLEAN]

\* get_google_credentials (under get_drive_service) returns, or raises
CredentialsFound(e) ==
    IF e.creds_base64 # "unset" THEN e.creds_base64 = "valid"
    ELSE e.creds_file

MainInit ==
    /\ mainPc = "check_login_env"
    /\ env \in Environments
    /\ driver = "none"
    /\ raised = FALSE
    /\ toProcess = 0
    /\ companyCount = 0
    /\ companyIdx = 0
    /\ ResolveIdle /\ ExtractIdle /\ CrawlIdle /\ PipelineIdle
    /\ now = [year |-> FirstYear, month |-> 1]

\* lines 536-540: the login credentials, or ValueError out of main
CheckLoginEnv ==
    /\ mainPc = "check_login_env"
    /\ mainPc' = IF env.username /\ env.password THEN "create_webdriver" ELSE "exit_error"
    /\ UNCHANGED <<env, driver, raised, toProcess, companyCount, companyIdx>>
    /\ UNCHANGED <<now, resolveVars, extractVars, crawlVars, pipelineVars>>

\* lines 543-544: create_session, create_webdriver; the driver exists once
\* webdriver.Chrome (line 109) has returned.  create_webdriver raises before
\* that, or after it in set_page_load_timeout (line 110), where the driver
\* exists and nothing quits it
CreateWebdriver ==
    /\ mainPc = "create_webdriver"
    /\ \/ driver' = "open" /\ mainPc' = "get_drive_service"
       \/ driver' = "none" /\ mainPc' = "exit_error"
       \/ driver' = "open" /\ mainPc' = "exit_error"
    /\ UNCHANGED <<env, raised, toProcess, companyCount, companyIdx>>
    /\ UNCHANGED <<now, resolveVars, extractVars, crawlVars, pipelineVars>>

\* line 545: get_drive_service, ahead of the try block; an exception of
\* get_google_credentials leaves main here
GetDriveService ==
    /\ mainPc = "get_drive_service"
    /\ mainPc' = IF CredentialsFound(env) THEN "login" ELSE "exit_error"
    /\ UNCHANGED <<env, driver, raised, toProcess, companyCount, companyIdx>>
    /\ UNCHANGED <<now, resolveVars, extractVars, crawlVars, pipelineVars>>

\* lines 549-550: login_to_screener returns True or False; False raises RuntimeError
Login ==
    /\ mainPc = "login"
    /\ \E ok \in BOOLEAN :
          IF ok THEN mainPc' = "scrape" /\ raised' = FALSE
          ELSE mainPc' = "finally" /\ raised' = TRUE
    /\ UNCHANGED <<env, driver, toProcess, companyCount, companyIdx>>
    /\ UNCHANGED <<now, resolveVars, extractVars, crawlVars, pipelineVars>>

\* line 557: scrape_transcripts_page returns its list, or a browser call raises
ScrapeMainPage ==
    /\ mainPc = "scrape"
    /\ \/ \E n \in 0..MaxScraped :
             /\ toProcess' = n
             /\ mainPc' = IF n = 0 THEN "get_companies" ELSE "pipeline"
             /\ raised' = FALSE
       \/ mainPc' = "finally" /\ raised' = TRUE /\ UNCHANGED toProcess
    /\ UNCHANGED <<env, driver, companyCount, companyIdx>>
    /\ UNCHANGED <<now, resolveVars, extractVars, crawlVars, pipelineVars>>

\* line 563: get_all_companies returns its list, or a browser call raises
GetCompanies ==
    /\ mainPc = "get_companies"
    /\ \/ \E n \in 0..MaxCompanies :
             /\ companyCount' = n
             /\ companyIdx' = 0
             /\ mainPc' = "company_loop"
             /\ raised' = FALSE
       \/ mainPc' = "finally" /\ raised' = TRUE /\ UNCHANGED <<companyCount, companyIdx>>
    /\ UNCHANGED <<env, driver, toProcess>>
    /\ UNCHANGED <<now, resolveVars, extractVars, crawlVars, pipelineVars>>

\* lines 565-573: one company of companies[:100]; get_company_transcripts
\* catches what its browser call raises and returns what it has
CheckCompany ==
    /\ mainPc = "company_loop"
    /\ companyIdx < companyCount /\ companyIdx < CompanyCheckLimit
    /\ \E k \in 0..MaxScraped : toProcess' = toProcess + k
    /\ companyIdx' = companyIdx + 1
    /\ UNCHANGED <<mainPc, env, driver, raised, companyCount>>
    /\ UNCHANGED <<now, resolveVars, extractVars, crawlVars, pipelineVars>>

\* the for loop is exhausted
CompaniesChecked ==
    /\ mainPc = "company_loop"
    /\ ~(companyIdx < companyCount /\ companyIdx < CompanyCheckLimit)
    /\ mainPc' = "pipeline"
    /\ UNCHANGED <<env, driver, raised, toProcess, companyCount, companyIdx>>
    /\ UNCHANGED <<now, resolveVars, extractVars, crawlVars, pipelineVars>>

\* lines 582-591: download_and_upload_transcripts returns its counters (it
\* catches every exception of a descriptor) and the summary is logged
RunPipeline ==
    /\ mainPc = "pipeline"
    /\ mainPc' = "finally"
    /\ UNCHANGED <<env, driver, raised, toProcess, companyCount, companyIdx>>
    /\ UNCHANGED <<now, resolveVars, extractVars, crawlVars, pipelineVars>>

\* lines 593-594: finally: driver.quit() is called, then the process ends;
\* when driver.quit() raises, main ends with that exception
Finally ==
    /\ mainPc = "finally"
    /\ driver' = "quit"
    /\ \/ mainPc' = IF raised THEN "exit_error" ELSE "exit_ok"
       \/ mainPc' = "exit_error"
    /\ UNCHANGED <<env, raised, toProcess, companyCount, companyIdx>>
    /\ UNCHANGED <<now, resolveVars, extractVars, crawlVars, pipelineVars>>

MainNext ==
    \/ CheckLoginEnv \/ CreateWebdriver \/ GetDriveService \/ Login
    \/ ScrapeMainPage \/ GetCompanies \/ CheckCompany \/ CompaniesChecked
    \/ RunPipeline \/ Finally
SpecMain == MainInit /\ [][MainNext]_vars

\* C2: whenever main has ended and the driver had been created, the driver
\* has been released by driver.quit, on the success path and on every
\* fatal-error path.
C2_DriverReleased ==
    mainPc \in {"exit_ok", "exit_error"} => driver # "open"

\* the same of the paths that enter the try block: main ends from inside it
\* only with driver.quit called
C2_ReleasedOnceInTry ==
    [][(/\ mainPc \notin {"check_login_env", "create_webdriver", "get_drive_service"}
        /\ mainPc' \in {"exit_ok", "exit_error"}) => driver' = "quit"]_vars

(***************************************************************************)
(* The fetch-and-store pipeline: download_and_upload_transcripts and the   *)
(* remote-storage calls under it.  Remote storage is the set of folders    *)
(* and the set of files that are not trashed.  Every call of the storage   *)
(* API and every download is one step, and each may raise.                 *)
(***************************************************************************)
RootId == 0
MaxDescriptors == 2
MaxTicks == 1
StartMonth == 3
Runs == {1, 2}

ForbiddenChars == {"<", ">", ":", "\"", "/", "\\", "|", "?", "*"}
\* re.sub(r'[<>:"/\\|?*]', '', company)
Sanitize(c) == SelectSeq(c, LAMBDA ch : ch \notin ForbiddenChars)
\* f"{safe_company} - {fiscal_year} {quarter} Transcript.pdf"
FileName(company, fy, q) ==
    Sanitize(company) \o <<" ", "-", " ">> \o fy \o <<" ">> \o q
        \o <<" ", "T", "r", "a", "n", "s", "c", "r", "i", "p", "t", ".", "p", "d", "f">>

\* the text handed to the resolver: raw_text, or text when raw_text is empty
ResolverText(t) == IF t.raw_text # <<>> THEN t.raw_text ELSE t.text
\* transcript.get(key) and transcript.get(key) != "Unknown"
HintGiven(h) == h # <<>> /\ h # Unknown
\* lines 482-491: the resolver's pair, each half replaced by the descriptor's hint
PipelinePeriod(t, clock) ==
    LET r == determine_quarter_fy(t.date, ResolverText(t), clock)
    IN <<IF HintGiven(t.quarter) THEN t.quarter ELSE r[1],
         IF HintGiven(t.fiscal_year) THEN t.fiscal_year ELSE r[2]>>

\* url.lstrip() of requests' prepare_url
RECURSIVE LStrip(_)
LStrip(s) == IF s # <<>> /\ IsSpace(s[1]) THEN LStrip(Tail(s)) ELSE s
\* session.get removes the white space ahead of the URL, then needs a URL with
\* an http or https scheme, and raises without one
HasHttpScheme(u) ==
    \/ StartsWith(StrLower(LStrip(u)), <<"h", "t", "t", "p", ":", "/", "/">>)
    \/ StartsWith(StrLower(LStrip(u)), <<"h", "t", "t", "p", "s", ":", "/", "/">>)

\* FindFolders of a search that finds nothing
FindFoldersNone(fs, name, parent) == {}
\* FindFolders with a query that leaves the parent out
FindFoldersAnyParent(fs, name, parent) == {f \in fs : f.name = name}

\* files().list of get_or_create_folder: the folders of that name under that parent
FindFolders(fs, name, parent) == {f \in fs : f.name = name /\ f.parent = parent}
\* FileExists of a query that matches nothing
FileExistsNever(fs, name, parent) == FALSE

\* file_exists_in_drive: a file of that name in that folder
FileExists(fs, name, parent) == \E f \in fs : f.name = name /\ f.parent = parent

\* AfterFailure of a handler that logs the failure and does not count it
AfterFailureUncounted(p) ==
    [p EXCEPT !.pc = "next", !.i = @ + 1]
\* AfterFailure of a try block around the whole loop: the failure ends the run
AfterFailureAbort(p) ==
    [p EXCEPT !.pc = "done", !.stats.failed = @ + 1]

\* the except clause of the loop: count the descriptor as failed, go to the next
AfterFailure(p) ==
    [p EXCEPT !.pc = "next", !.i = @ + 1, !.stats.failed = @ + 1]

\* the clock one month later
NextMonth(c) ==
    IF c.month = 12 THEN [year |-> c.year + 1, month |-> 1]
    ELSE [year |-> c.year, month |-> c.month + 1]
MonthsSinceStart(c) == (c.year - FirstYear) * 12 + c.month - StartMonth

TextSlashes == <<"A", "/", "B", ":", " ", "C", "o", "r", "p", "*", " ",
                 "0", "1", "-", "0", "2", "-", "2", "0", "2", "3">>
\* a row with the markers Q2 and FY24 and a date
DescAcme == parse_transcript_row([links |-> <<HrefRootRelative>>, text |-> TextAcme])[1]
\* a row with no marker and no date: the period comes from the clock
DescBeta == parse_transcript_row([links |-> <<HrefAbsolute>>, text |-> TextBeta])[1]
\* a row with a date only, and a company name to sanitize
DescSlashes == parse_transcript_row([links |-> <<HrefPlainHttp>>, text |-> TextSlashes])[1]
\* a company-page link with a relative href
DescCompany ==
    get_company_transcripts(NameAcme, <<[href |-> HrefRelative, text |-> TextQ3]>>)[1]
\* a descriptor without a source URL
DescNoUrl == [DescBeta EXCEPT !.pdf_url = <<>>]
Descriptors == {DescAcme, DescBeta, DescSlashes, DescCompany, DescNoUrl}

Year2023 == <<"F", "Y", "2", "0", "2", "3">>
\* the storage before the first run: empty, or with a folder of an earlier run
InitialFolders == {{}, {[id |-> 1, name |-> Year2023, parent |-> RootId]}}

IdleProc ==
    [pc |-> "idle", i |-> 1,
     stats |-> [downloaded |-> 0, skipped |-> 0, failed |-> 0],
     quarter |-> <<>>, fiscal_year |-> <<>>,
     fy_folder_id |-> RootId, quarter_folder_id |-> RootId, filename |-> <<>>]

Init ==
    /\ transcripts \in SeqsUpTo(Descriptors, MaxDescriptors)
    /\ folders \in InitialFolders
    /\ files = {}
    /\ nextId = 2
    /\ proc = [r \in Runs |-> IdleProc]
    /\ now = [year |-> FirstYear, month |-> StartMonth]
    /\ ResolveIdle /\ ExtractIdle /\ CrawlIdle /\ MainIdle

pipelineRest == <<resolveVars, extractVars, crawlVars, mainVars>>

\* the wall clock moves on by a month, at any moment of either run
Tick ==
    /\ MonthsSinceStart(now) < MaxTicks
    /\ \E r \in Runs : proc[r].pc # "done"
    /\ now' = NextMonth(now)
    /\ UNCHANGED <<pipelineVars, pipelineRest>>

\* download_and_upload_transcripts is called: the first run, and the second
\* once the first has returned
StartRun(r) ==
    /\ proc[r].pc = "idle"
    /\ \A q \in Runs : q < r => proc[q].pc = "done"
    /\ proc' = [proc EXCEPT ![r].pc = "next"]
    /\ UNCHANGED <<transcripts, folders, files, nextId, now, pipelineRest>>

\* lines 473-493: the loop head; a descriptor without a URL is passed over,
\* the others get their quarter and fiscal year
NextDescriptor(r) ==
    /\ proc[r].pc = "next"
    /\ IF proc[r].i > Len(transcripts)
       THEN proc' = [proc EXCEPT ![r].pc = "done"]
       ELSE IF transcripts[proc[r].i].pdf_url = <<>>
       THEN proc' = [proc EXCEPT ![r].i = @ + 1]
       ELSE proc' = [proc EXCEPT
                ![r].quarter = PipelinePeriod(transcripts[proc[r].i], now)[1],
                ![r].fiscal_year = PipelinePeriod(transcripts[proc[r].i], now)[2],
                ![r].pc = "fy_list"]
    /\ UNCHANGED <<transcripts, folders, files, nextId, now, pipelineRest>>

\* get_or_create_folder(fiscal_year, DRIVE_FOLDER_ID), lines 423-428: the search
FyList(r) ==
    /\ proc[r].pc = "fy_list"
    /\ \/ proc' = [proc EXCEPT ![r].pc = "except"]
       \/ /\ FindFolders(folders, proc[r].fiscal_year, RootId) = {}
          /\ proc' = [proc EXCEPT ![r].pc = "fy_create"]
       \/ \E f \in FindFolders(folders, proc[r].fiscal_year, RootId) :
             proc' = [proc EXCEPT ![r].fy_folder_id = f.id, ![r].pc = "q_list"]
    /\ UNCHANGED <<transcripts, folders, files, nextId, now, pipelineRest>>

\* lines 430-438: the creation
FyCreate(r) ==
    /\ proc[r].pc = "fy_create"
    /\ \/ /\ proc' = [proc EXCEPT ![r].pc = "except"]
          /\ UNCHANGED <<folders, nextId>>
       \/ /\ folders' = folders \cup
                {[id |-> nextId, name |-> proc[r].fiscal_year, parent |-> RootId]}
          /\ nextId' = nextId + 1
          /\ proc' = [proc EXCEPT ![r].fy_folder_id = nextId, ![r].pc = "q_list"]
    /\ UNCHANGED <<transcripts, files, now, pipelineRest>>

\* get_or_create_folder(quarter, fy_folder_id): the search
QuarterList(r) ==
    /\ proc[r].pc = "q_list"
    /\ \/ proc' = [proc EXCEPT ![r].pc = "except"]
       \/ /\ FindFolders(folders, proc[r].quarter, proc[r].fy_folder_id) = {}
          /\ proc' = [proc EXCEPT ![r].pc = "q_create"]
       \/ \E f \in FindFolders(folders, proc[r].quarter, proc[r].fy_folder_id) :
             proc' = [proc EXCEPT
                ![r].quarter_folder_id = f.id,
                ![r].filename = FileName(transcripts[proc[r].i].company,
                                         proc[r].fiscal_year, proc[r].quarter),
                ![r].pc = "exists"]
    /\ UNCHANGED <<transcripts, folders, files, nextId, now, pipelineRest>>

\* the creation, and lines 500-501: the file name
QuarterCreate(r) ==
    /\ proc[r].pc = "q_create"
    /\ \/ /\ proc' = [proc EXCEPT ![r].pc = "except"]
          /\ UNCHANGED <<folders, nextId>>
       \/ /\ folders' = folders \cup
                {[id |-> nextId, name |-> proc[r].quarter, parent |-> proc[r].fy_folder_id]}
          /\ nextId' = nextId + 1
          /\ proc' = [proc EXCEPT
                ![r].quarter_folder_id = nextId,
                ![r].filename = FileName(transcripts[proc[r].i].company,
                                         proc[r].fiscal_year, proc[r].quarter),
                ![r].pc = "exists"]
    /\ UNCHANGED <<transcripts, files, now, pipelineRest>>

\* lines 504-507: file_exists_in_drive; an existing file is counted as skipped
CheckExists(r) ==
    /\ proc[r].pc = "exists"
    /\ \/ proc' = [proc EXCEPT ![r].pc = "except"]
       \/ /\ FileExists(files, proc[r].filename, proc[r].quarter_folder_id)
          /\ proc' = [proc EXCEPT ![r].pc = "next", ![r].i = @ + 1,
                                  ![r].stats.skipped = @ + 1]
       \/ /\ ~FileExists(files, proc[r].filename, proc[r].quarter_folder_id)
          /\ proc' = [proc EXCEPT ![r].pc = "download"]
    /\ UNCHANGED <<transcripts, folders, files, nextId, now, pipelineRest>>

\* lines 510-511: session.get and raise_for_status
Download(r) ==
    /\ proc[r].pc = "download"
    /\ \/ proc' = [proc EXCEPT ![r].pc = "except"]
       \/ /\ HasHttpScheme(transcripts[proc[r].i].pdf_url)
          /\ proc' = [proc EXCEPT ![r].pc = "upload_exists"]
    /\ UNCHANGED <<transcripts, folders, files, nextId, now, pipelineRest>>

\* upload_to_drive, lines 449-451: its own existence check; lines 514-515 count
\* the descriptor as downloaded whatever upload_to_drive returns
UploadCheck(r) ==
    /\ proc[r].pc = "upload_exists"
    /\ \/ proc' = [proc EXCEPT ![r].pc = "except"]
       \/ /\ FileExists(files, proc[r].filename, proc[r].quarter_folder_id)
          /\ proc' = [proc EXCEPT ![r].pc = "next", ![r].i = @ + 1,
                                  ![r].stats.downloaded = @ + 1]
       \/ /\ ~FileExists(files, proc[r].filename, proc[r].quarter_folder_id)
          /\ proc' = [proc EXCEPT ![r].pc = "upload_create"]
    /\ UNCHANGED <<transcripts, folders, files, nextId, now, pipelineRest>>

\* upload_to_drive, lines 453-462: files().create, and lines 515-517
UploadCreate(r) ==
    /\ proc[r].pc = "upload_create"
    /\ \/ /\ proc' = [proc EXCEPT ![r].pc = "except"]
          /\ UNCHANGED <<files, nextId>>
       \/ /\ files' = files \cup
                {[id |-> nextId, name |-> proc[r].filename,
                  parent |-> proc[r].quarter_folder_id]}
          /\ nextId' = nextId + 1
          /\ proc' = [proc EXCEPT ![r].pc = "next", ![r].i = @ + 1,
                                  ![r].stats.downloaded = @ + 1]
    /\ UNCHANGED <<transcripts, folders, now, pipelineRest>>

\* lines 519-521: except Exception
Except(r) ==
    /\ proc[r].pc = "except"
    /\ proc' = [proc EXCEPT ![r] = AfterFailure(proc[r])]
    /\ UNCHANGED <<transcripts, folders, files, nextId, now, pipelineRest>>

Next ==
    \/ Tick
    \/ \E r \in Runs :
        \/ StartRun(r) \/ NextDescriptor(r)
        \/ FyList(r) \/ FyCreate(r) \/ QuarterList(r) \/ QuarterCreate(r)
        \/ CheckExists(r) \/ Download(r) \/ UploadCheck(r) \/ UploadCreate(r)
        \/ Except(r)
Spec == Init /\ [][Next]_vars

\* the clock has stayed in the fiscal quarter in which the first run began
SameQuarterSinceStart(c) == FiscalPeriod(c.month, c.year) = FiscalPeriod(StartMonth, FirstYear)

\* C1 as stated, read of a first run in which no call failed: whatever the
\* dates of the two runs, the second run over the same list uploads no file
\* and creates no folder.
C1_SecondRunChangesNothing ==
    [][(proc[2].pc # "idle" /\ proc[1].stats.failed = 0)
          => (folders' = folders /\ files' = files)]_vars

\* C1 amended: when the first run counted no failure and the clock stays in
\* one fiscal quarter over both runs, the second run over the same list
\* uploads no file and creates no folder.
C1_SecondRunIdempotent ==
    [][(proc[2].pc # "idle" /\ proc[1].stats.failed = 0 /\ SameQuarterSinceStart(now'))
          => (folders' = folders /\ files' = files)]_vars

\* both runs over two descriptors: two uploads, then two skips
C1_Witness ==
    /\ proc[2].pc = "done"
    /\ proc[1].stats = [downloaded |-> 2, skipped |-> 0, failed |-> 0]
    /\ proc[2].stats = [downloaded |-> 0, skipped |-> 2, failed |-> 0]
    /\ SameQuarterSinceStart(now)
    /\ Cardinality(files) = 2

\* C5: the loop index moves one descriptor at a time and the run returns only
\* past the last one; a call that raises changes neither the storage nor the
\* counters, its handler adds exactly one to failed and goes on with the
\* next descriptor; folders and files are never removed.
C5_FailureIsolated ==
    [][\A r \in Runs :
            /\ proc'[r].i \in {proc[r].i, proc[r].i + 1}
            /\ (proc[r].pc # "done" /\ proc'[r].pc = "done") => proc[r].i > Len(transcripts)
            /\ (proc[r].pc # "except" /\ proc'[r].pc = "except") =>
                  /\ folders' = folders /\ files' = files
                  /\ proc'[r].i = proc[r].i /\ proc'[r].stats = proc[r].stats
            /\ (proc[r].pc = "except" /\ proc'[r] # proc[r]) =>
                  /\ proc'[r].stats = [proc[r].stats EXCEPT !.failed = @ + 1]
                  /\ proc'[r].i = proc[r].i + 1
                  /\ proc'[r].pc = "next"
                  /\ folders' = folders /\ files' = files
            /\ proc'[r].stats.failed # proc[r].stats.failed => proc[r].pc = "except"
            /\ folders \subseteq folders' /\ files \subseteq files']_vars

\* the first descriptor failed at its download, after its folders were made;
\* the second was uploaded
C5_Witness ==
    /\ transcripts = <<DescCompany, DescAcme>>
    /\ proc[1].pc = "done"
    /\ proc[1].stats = [downloaded |-> 1, skipped |-> 0, failed |-> 1]
    /\ \E f \in folders : f.name = DescCompany.fiscal_year /\ f.parent = RootId
    /\ Cardinality(files) = 1

EndsWith(s, e) == Len(s) >= Len(e) /\ SubSeq(s, Len(s) - Len(e) + 1, Len(s)) = e

\* C6: no two folders under one parent bear the same name; the folder a
\* descriptor's file goes to is named after its quarter, inside a folder
\* named after its fiscal year, inside the root; and every file lies so.
C6_FoldersUniqueAndNested ==
    /\ \A f, g \in folders : (f.name = g.name /\ f.parent = g.parent) => f = g
    /\ \A r \in Runs :
          proc[r].pc \in {"exists", "download", "upload_exists", "upload_create"} =>
             \E q, y \in folders :
                /\ q.id = proc[r].quarter_folder_id /\ q.name = proc[r].quarter
                /\ y.id = q.parent /\ y.name = proc[r].fiscal_year
                /\ y.parent = RootId
    /\ \A x \in files :
          \E q, y \in folders :
             /\ q.id = x.parent /\ y.id = q.parent /\ y.parent = RootId
             /\ EndsWith(x.name,
                    <<" ", "-", " ">> \o y.name \o <<" ">> \o q.name
                      \o <<" ", "T", "r", "a", "n", "s", "c", "r", "i", "p", "t",
                           ".", "p", "d", "f">>)

\* both runs are over, a file lies under the folder that was there before
\* the first run, and that folder is still the only one of its name
C6_Witness ==
    /\ proc[2].pc = "done"
    /\ Cardinality(FindFolders(folders, Year2023, RootId)) = 1
    /\ \E x \in files, q \in folders : x.parent = q.id /\ q.parent = 1
    /\ Cardinality(folders) >= 4

IsQuarterName(q) == q \in {<<"Q", "1">>, <<"Q", "2">>, <<"Q", "3">>, <<"Q", "4">>}
IsFiscalYearName(y) ==
    Len(y) = 6 /\ SubSeq(y, 1, 2) = <<"F", "Y">> /\ AllDigits(SubSeq(y, 3, 6))

\* C7: the pair a run names the folders and the file with is fully resolved:
\* the quarter is one of Q1..Q4 and the fiscal year is FY and four digits.
C7_PeriodFullyResolved ==
    \A r \in Runs :
        proc[r].pc \notin {"idle", "next", "done"} =>
            IsQuarterName(proc[r].quarter) /\ IsFiscalYearName(proc[r].fiscal_year)

(***************************************************************************)
(* Two runs of download_and_upload_transcripts at the same time, over the  *)
(* same list and the same remote storage: two processes of the program.    *)
(* Each run takes the steps of the sequential pipeline; a step is one call *)
(* of the storage API or one download, and the steps of the two runs       *)
(* interleave freely.                                                      *)
(***************************************************************************)
\* the lists the two runs are given: the same row, scraped once or more
ConcurrentDescriptors == {DescAcme}
\* both runs start from an empty storage; the two runs overlap within one
\* month, so the clock stands still
ConcurrentInit ==
    /\ transcripts \in SeqsUpTo(ConcurrentDescriptors, MaxDescriptors)
    /\ folders = {}
    /\ files = {}
    /\ nextId = 2
    /\ proc = [r \in Runs |-> IdleProc]
    /\ now = [year |-> FirstYear, month |-> StartMonth]
    /\ ResolveIdle /\ ExtractIdle /\ CrawlIdle /\ MainIdle

\* download_and_upload_transcripts is called, in either process, at any time
StartConcurrently(r) ==
    /\ proc[r].pc = "idle"
    /\ proc' = [proc EXCEPT ![r].pc = "next"]
    /\ UNCHANGED <<transcripts, folders, files, nextId, now, pipelineRest>>

ConcurrentNext ==
    \E r \in Runs :
        \/ StartConcurrently(r) \/ NextDescriptor(r)
        \/ FyList(r) \/ FyCreate(r) \/ QuarterList(r) \/ QuarterCreate(r)
        \/ CheckExists(r) \/ Download(r) \/ UploadCheck(r) \/ UploadCreate(r)
        \/ Except(r)
SpecConcurrent == ConcurrentInit /\ [][ConcurrentNext]_vars

\* two folders of one name under one parent
DuplicateFolder(fs) ==
    \E f, g \in fs : f # g /\ f.name = g.name /\ f.parent = g.parent
\* two files of one name in one folder
DuplicateFile(fs) ==
    \E x, y \in fs : x # y /\ x.name = y.name /\ x.parent = y.parent

\* C11: duplicates come from the interleaving and from nothing else.  A step
\* that makes the first duplicate folder (or file) is a create call of a run
\* whose search found nothing, taken while the other run has started too and
\* has itself made a folder (or file) since; as long as only one run has
\* started there is no duplicate.  That such a state is reached is the
\* witness C11_Witness.
C11_DuplicatesOnlyByInterleaving ==
    [][/\ (DuplicateFolder(folders') /\ ~DuplicateFolder(folders)) =>
             /\ \A r \in Runs : proc[r].pc # "idle"
             /\ \E r \in Runs : proc[r].pc \in {"fy_create", "q_create"}
                                /\ proc'[r].pc # "except"
       /\ (DuplicateFile(files') /\ ~DuplicateFile(files)) =>
             /\ \A r \in Runs : proc[r].pc # "idle"
             /\ \E r \in Runs : proc[r].pc = "upload_create"
                                /\ proc'[r].pc # "except"
       /\ (\E r \in Runs : proc[r].pc = "idle") =>
             (~DuplicateFolder(folders) /\ ~DuplicateFile(files))]_vars

\* both runs have returned and left two folders of one name under one parent
\* and two files of one name in one folder
C11_Witness ==
    /\ \A r \in Runs : proc[r].pc = "done"
    /\ DuplicateFolder(folders)
    /\ DuplicateFile(files)

\* the descriptors with a source URL among the first n of the list
RECURSIVE UrlCount(_)
UrlCount(n) ==
    IF n = 0 THEN 0
    ELSE UrlCount(n - 1) + (IF transcripts[n].pdf_url # <<>> THEN 1 ELSE 0)
Counted(st) == st.downloaded + st.skipped + st.failed

\* C12: in sequential runs, the three counters of a run add up to the number
\* of descriptors with a source URL that the run has finished with, so at the
\* return to the number of all such descriptors, those without a URL being
\* counted nowhere; and the files in the storage, empty before the first
\* run, are as many as the runs have counted as downloaded: when the first
\* run returns, as many as it counted, and the second run adds its own.
C12_CountersAccountForDescriptors ==
    /\ \A r \in Runs :
          /\ proc[r].pc \in {"idle", "next", "done"} =>
                Counted(proc[r].stats) = UrlCount(proc[r].i - 1)
          /\ proc[r].pc \notin {"idle", "next", "done"} =>
                /\ transcripts[proc[r].i].pdf_url # <<>>
                /\ Counted(proc[r].stats) = UrlCount(proc[r].i - 1)
          /\ proc[r].pc = "done" =>
                /\ proc[r].i = Len(transcripts) + 1
                /\ Counted(proc[r].stats) = UrlCount(Len(transcripts))
    /\ proc[2].pc = "idle" => Cardinality(files) = proc[1].stats.downloaded
    /\ Cardinality(files) = proc[1].stats.downloaded + proc[2].stats.downloaded

\* a list of a descriptor without a URL and one with: the first run has
\* uploaded the one file, the second has skipped it, neither counted the other
C12_Witness ==
    /\ transcripts = <<DescNoUrl, DescAcme>>
    /\ \A r \in Runs : proc[r].pc = "done"
    /\ proc[1].stats = [downloaded |-> 1, skipped |-> 0, failed |-> 0]
    /\ proc[2].stats = [downloaded |-> 0, skipped |-> 1, failed |-> 0]
    /\ Cardinality(files) = 1

====
